---------------------------- MODULE Spec2Model ----------------------------
(***************************************************************************)
(* Model of the wind-tunnel acquisition sketch                             *)
(* "Wind Tunnel/WinTunnel/WinTunnel.ino": setup() followed by loop()       *)
(* called forever on a single thread.                                      *)
(*                                                                         *)
(* Numbers.  The sketch computes in float.  The model computes the same    *)
(* formulas in fixed point, with these units:                              *)
(*   pressure_Pa, pressure0, dynamicPressure : 1/1023 Pa (exact: with the  *)
(*       sketch's constants the pressure of an integer ADC count is an     *)
(*       integer number of 1/1023 Pa);                                     *)
(*   temperature : 1/100 degree C;   temperatureK : 1/100 K;               *)
(*   density     : 1/10000 kg/m^3;   windSpeed    : 1/100 m/s;             *)
(*   f1..f4      : 1/1000 of a load unit.                                  *)
(* A float that may be NaN or infinite is a record [k, v]: k is "fin"      *)
(* (v the value), "nan" or "inf".  Float rounding is not modelled: it      *)
(* moves no value across zero here (the pressure nearest to zero is        *)
(* 0.73 Pa away from it, the float error is below 0.001 Pa), and equal     *)
(* inputs give equal floats.                                               *)
(***************************************************************************)
EXTENDS Integers, Sequences, FiniteSets

-----------------------------------------------------------------------------
(* Program constants (lines 25-29, 91, 95 and 96), in the units above.     *)

Vcc_d == 50
ADC_RES == 1023
P_max_d == 20
V_offset_d == 5
atm_pressure == 101325
R_air_c == 28705
KelvinOffset_c == 27315
FallbackTemp_c == -9900

Channels == 1..4
AdcRange == 0..ADC_RES

(* The inputs the model draws from.  Loads: 0.617 units apart.  ADC        *)
(* counts: the ends of the range, the two counts around the zero-pressure  *)
(* voltage and mid-scale.  Temperatures: -300.00 (below absolute zero),    *)
(* -273.15, -99.00 (the fallback value, read validly) and 25.00 C.         *)
MaxUnits == 1
LoadVals == {617 * k : k \in 0..MaxUnits}
AdcSamples == {0, 102, 103, 512, 1023}
TempVals == {-30000, -27315, -9900, 2500}

-----------------------------------------------------------------------------
(* Floats that may be non-finite.                                          *)

Fin(x) == [k |-> "fin", v |-> x]
NaN == [k |-> "nan", v |-> 0]
Inf == [k |-> "inf", v |-> 0]

isnan(x) == x.k = "nan"

Abs(a) == IF a < 0 THEN -a ELSE a

(* C division of a by b # 0, truncated toward zero.                        *)
Quot(a, b) ==
  IF (a < 0) = (b < 0) THEN Abs(a) \div Abs(b) ELSE -(Abs(a) \div Abs(b))

RECURSIVE SqrtSearch(_, _, _)
SqrtSearch(x, lo, hi) ==
  IF lo >= hi THEN lo
  ELSE LET mid == (lo + hi + 1) \div 2
       IN IF mid * mid <= x THEN SqrtSearch(x, mid, hi)
          ELSE SqrtSearch(x, lo, mid - 1)

(* Largest r with r*r <= x, for 0 <= x < 2^31.                             *)
ISqrt(x) == SqrtSearch(x, 0, 46340)

-----------------------------------------------------------------------------
(* The computations of loop(), as the code writes them.                    *)

(* A read that does not look at is_ready().                                *)
LoadCellUnguarded(isReady, u) == u

(* Lines 69-73: fN = 0; if (scaleN.is_ready()) fN = scaleN.get_units();    *)
LoadCell(isReady, u) == IF isReady THEN u ELSE 0

(* The conversion with a 1020-count scale: count 102 is then the           *)
(* zero-pressure voltage exactly.                                          *)
PressurePa1020(adc) ==
  ((adc * Vcc_d - V_offset_d * 1020) * P_max_d * 1000)
     \div (10 * (Vcc_d - 2 * V_offset_d))

(* Lines 77 and 80: voltage = adc / ADC_RES * Vcc;                         *)
(* pressure = (voltage - V_offset) * (P_max / (Vcc - 2 V_offset)) * 1000,  *)
(* times 1023 (the tenths of Vcc, V_offset and P_max cancel).              *)
PressurePa(adc) ==
  ((adc * Vcc_d - V_offset_d * ADC_RES) * P_max_d * 1000)
     \div (10 * (Vcc_d - 2 * V_offset_d))

(* A zero offset that is also applied in the cycle that captures it.       *)
ZeroOffsetAtCapture(p, p0) == IF p0 # 0 THEN p - p0 ELSE 0

(* Lines 81-85: pressure_Pa after the branch on the baseline.              *)
ZeroOffset(p, p0) == IF p0 # 0 THEN p - p0 ELSE p

(* A baseline that follows the latest reading.                             *)
BaselineRecaptured(p, p0) == p

(* Lines 81-85: the baseline after the branch.                             *)
Baseline(p, p0) == IF p0 # 0 THEN p0 ELSE p

(* No clamp.                                                               *)
NoClamp(p) == p

(* Line 86: max(pressure_Pa, 0.0).                                         *)
Max0(p) == IF p > 0 THEN p ELSE 0

(* Lines 90-93: the fallback for a failed read.                            *)
Fallback(r) == IF isnan(r) THEN Fin(FallbackTemp_c) ELSE r

(* Line 95, in 1/100 K.                                                    *)
TemperatureK(t) == t.v + KelvinOffset_c

(* Line 96: (atm_pressure - dynamicPressure) / (287.05 * temperatureK).    *)
(* The numerator is positive for every dynamic pressure the ADC can give,  *)
(* so a zero temperatureK gives +inf.                                      *)
Density(dyn, t) ==
  LET num == ((atm_pressure * ADC_RES - dyn) * 10) \div ADC_RES
      tk == TemperatureK(t)
  IN IF tk = 0 THEN IF num = 0 THEN NaN ELSE Inf
     ELSE Fin(Quot(Quot(num * 1000, R_air_c) * 10000, tk))

(* Line 99: sqrt((2.0 * dynamicPressure) / density), IEEE 754: x/inf is 0, *)
(* x/0 is inf (0/0 NaN), the root of a negative number is NaN and the root *)
(* of -0 is -0, which prints as 0.                                         *)
WindSpeed(dyn, dens) ==
  CASE dens.k = "nan" -> NaN
    [] dens.k = "inf" -> Fin(0)
    [] dens.v = 0 -> IF dyn = 0 THEN NaN ELSE Inf
    [] dens.v < 0 -> IF dyn = 0 THEN Fin(0) ELSE NaN
    [] OTHER ->
         Fin(ISqrt(Quot(Quot(2 * dyn * 100, ADC_RES) * 1000, dens.v) * 1000))

(* Serial.print(x, digits) of a float held in 10^-have units: "nan", "inf" *)
(* or the value rounded half away from zero to `digits` decimals.          *)
RECURSIVE Pow10(_)
Pow10(n) == IF n = 0 THEN 1 ELSE 10 * Pow10(n - 1)

PrintFloat(x, have, digits) ==
  IF x.k # "fin" THEN x
  ELSE LET d == Pow10(have - digits)
       IN Fin(Quot(IF x.v < 0 THEN x.v - (d \div 2) ELSE x.v + (d \div 2), d))

-----------------------------------------------------------------------------
(* Calls on the drivers and on Serial.  A call is [op, ch, tok]: ch is the *)
(* weight channel (0 when there is none) and tok what a Serial call        *)
(* writes: a printed float, a separator or a line of text.                 *)

NoTok == [k |-> "none", v |-> 0]
Text(name) == [k |-> name, v |-> 0]
Sep == Text(",")

Call(op, c) == [op |-> op, ch |-> c, tok |-> NoTok]
Println(tok) == [op |-> "println", ch |-> 0, tok |-> tok]
SerialPrint(tok) == [op |-> "print", ch |-> 0, tok |-> tok]

(* The driver calls lines 70-73 make for channel c, in order.              *)
LoadCellCalls(c, isReady) ==
  IF isReady THEN << Call("is_ready", c), Call("get_units", c) >>
  ELSE << Call("is_ready", c) >>

(* Line 64: the columns of the header, in order.                           *)
Header ==
  << "WindSpeed(m/s)", "Density(kg/m^3)", "Load1", "Load2", "Load3", "Load4",
     "Temperature(C)" >>

(* Lines 102-108: the seven printed fields, in the order printed.          *)
Row(ws, dens, ff, temp) ==
  << PrintFloat(ws, 2, 2), PrintFloat(dens, 4, 3),
     PrintFloat(Fin(ff[1]), 3, 2), PrintFloat(Fin(ff[2]), 3, 2),
     PrintFloat(Fin(ff[3]), 3, 2), PrintFloat(Fin(ff[4]), 3, 2),
     PrintFloat(temp, 2, 1) >>

(* A row that leaves out Load4 and its separator.                          *)
PrintCallsSix(fields) ==
  << SerialPrint(fields[1]), SerialPrint(Sep), SerialPrint(fields[2]),
     SerialPrint(Sep), SerialPrint(fields[3]), SerialPrint(Sep),
     SerialPrint(fields[4]), SerialPrint(Sep), SerialPrint(fields[5]),
     SerialPrint(Sep), Println(fields[7]) >>

(* Lines 102-108: the Serial calls that write the fields.                  *)
PrintCalls(fields) ==
  << SerialPrint(fields[1]), SerialPrint(Sep), SerialPrint(fields[2]),
     SerialPrint(Sep), SerialPrint(fields[3]), SerialPrint(Sep),
     SerialPrint(fields[4]), SerialPrint(Sep), SerialPrint(fields[5]),
     SerialPrint(Sep), SerialPrint(fields[6]), SerialPrint(Sep),
     Println(fields[7]) >>

(* A failed read that is not reported.                                     *)
NoticeCallsSilent(r) == << >>

(* Lines 90-93: the notice of a failed read.                               *)
NoticeCalls(r) ==
  IF isnan(r) THEN << Println(Text("notice")) >> ELSE << >>

-----------------------------------------------------------------------------
VARIABLES
  pc,               \* the next statement group to run
  ch,               \* in setup: the scale the next begin() or tare() is for
  scale,            \* scale1..scale4: whether begin() and tare() were called
  dhtStarted,       \* dht.begin() was called
  pressure0,        \* line 30: the baseline, 0 while unset
  f,                \* f1..f4 of the current loop() call
  adcValue,         \* locals of the current loop() call
  pressure_Pa,
  dynamicPressure,
  temperature,
  density,
  windSpeed,
  trace,            \* the calls made so far by the current setup()/loop() call
  boot,             \* the calls setup() made, kept once it has returned
  ready,            \* what each scale's is_ready() returned in this cycle
  units,            \* what each bridge holds in this cycle
  reading,          \* what dht.readTemperature() returned in this cycle
  air,              \* the air temperature in this cycle
  ref               \* the same run with every channel ready and every read valid

vars ==
  << pc, ch, scale, dhtStarted, pressure0, f, adcValue, pressure_Pa,
     dynamicPressure, temperature, density, windSpeed, trace, boot, ready,
     units, reading, air, ref >>

locals ==
  << f, adcValue, pressure_Pa, dynamicPressure, temperature, density,
     windSpeed, ready, units, reading, air >>

hardware == << scale, dhtStarted >>

NoLoads == [i \in Channels |-> 0]
NoneReady == [i \in Channels |-> FALSE]

Init ==
  /\ pc = "setup"
  /\ ch = 1
  /\ scale = [i \in Channels |-> [bound |-> FALSE, tared |-> FALSE]]
  /\ dhtStarted = FALSE
  /\ pressure0 = 0
  /\ f = NoLoads
  /\ adcValue = 0
  /\ pressure_Pa = 0
  /\ dynamicPressure = 0
  /\ temperature = Fin(0)
  /\ density = Fin(0)
  /\ windSpeed = Fin(0)
  /\ trace = << >>
  /\ boot = << >>
  /\ ready = NoneReady
  /\ units = NoLoads
  /\ reading = Fin(0)
  /\ air = 0
  /\ ref = [pressure0 |-> 0, f |-> NoLoads, dynamicPressure |-> 0,
            temperature |-> Fin(0), row |-> << >>]

-----------------------------------------------------------------------------
(* setup(), lines 41-65.                                                   *)

(* Lines 42-45.                                                            *)
SetupStart ==
  /\ pc = "setup"
  /\ trace' = << Call("Serial.begin", 0), Call("delay", 0),
                 Println(Text("banner_started")) >>
  /\ pc' = "begin"
  /\ ch' = 1
  /\ UNCHANGED << hardware, pressure0, locals, boot, ref >>

(* Lines 48-51: scaleN.begin(DOUTN, SCKN), N = 1..4 in order.              *)
ScaleBegin ==
  /\ pc = "begin"
  /\ scale' = [scale EXCEPT ![ch].bound = TRUE]
  /\ trace' = Append(trace, Call("begin", ch))
  /\ IF ch < 4 THEN pc' = pc /\ ch' = ch + 1
               ELSE pc' = "dht_begin" /\ ch' = 1
  /\ UNCHANGED << dhtStarted, pressure0, locals, boot, ref >>

(* A setup() that goes on to the header without the tares.                 *)
DhtBeginNoTare ==
  /\ pc = "dht_begin"
  /\ dhtStarted' = TRUE
  /\ trace' = trace \o << Call("dht.begin", 0), Call("delay", 0) >>
  /\ pc' = "header"
  /\ UNCHANGED << ch, scale, pressure0, locals, boot, ref >>

(* Lines 54-55.                                                            *)
DhtBegin ==
  /\ pc = "dht_begin"
  /\ dhtStarted' = TRUE
  /\ trace' = trace \o << Call("dht.begin", 0), Call("delay", 0) >>
  /\ pc' = "tare"
  /\ UNCHANGED << ch, scale, pressure0, locals, boot, ref >>

(* Lines 58-61: scaleN.tare(), N = 1..4 in order.                          *)
Tare ==
  /\ pc = "tare"
  /\ scale' = [scale EXCEPT ![ch].tared = TRUE]
  /\ trace' = Append(trace, Call("tare", ch))
  /\ IF ch < 4 THEN pc' = pc /\ ch' = ch + 1
               ELSE pc' = "header" /\ ch' = 1
  /\ UNCHANGED << dhtStarted, pressure0, locals, boot, ref >>

(* Lines 63-65: the second banner line, the header line, and the return.   *)
SetupFinish ==
  /\ pc = "header"
  /\ boot' = trace \o << Println(Text("banner_initialized")),
                          Println(Text("header")) >>
  /\ trace' = << >>
  /\ pc' = "load"
  /\ UNCHANGED << ch, hardware, pressure0, locals, ref >>

-----------------------------------------------------------------------------
(* loop(), lines 67-111.  Each call of loop() starts with fresh locals.    *)

(* Reads chained so that a channel is read only if every channel before   *)
(* it was ready.                                                           *)
LoopLoadCellsChained(Vals) ==
  /\ pc = "load"
  /\ \E r \in [Channels -> BOOLEAN], u \in [Channels -> Vals] :
        /\ f' = [i \in Channels |->
                  LoadCell(\A j \in 1..i : r[j], u[i])]
        /\ ready' = r
        /\ units' = u
        /\ trace' = LoadCellCalls(1, r[1]) \o LoadCellCalls(2, r[2])
                       \o LoadCellCalls(3, r[3]) \o LoadCellCalls(4, r[4])
        /\ ref' = [ref EXCEPT !.f = [i \in Channels |-> LoadCell(TRUE, u[i])]]
  /\ pc' = "pitot"
  /\ UNCHANGED << ch, hardware, pressure0, adcValue, pressure_Pa,
                  dynamicPressure, temperature, density, windSpeed, boot,
                  reading, air >>

(* Lines 69-73.  r[i] is what scale i's is_ready() returns and u[i]        *)
(* what its bridge holds.                                                  *)
LoopLoadCells(Vals) ==
  /\ pc = "load"
  /\ \E r \in [Channels -> BOOLEAN], u \in [Channels -> Vals] :
        /\ f' = [i \in Channels |-> LoadCell(r[i], u[i])]
        /\ ready' = r
        /\ units' = u
        /\ trace' = LoadCellCalls(1, r[1]) \o LoadCellCalls(2, r[2])
                       \o LoadCellCalls(3, r[3]) \o LoadCellCalls(4, r[4])
        /\ ref' = [ref EXCEPT !.f = [i \in Channels |-> LoadCell(TRUE, u[i])]]
  /\ pc' = "pitot"
  /\ UNCHANGED << ch, hardware, pressure0, adcValue, pressure_Pa,
                  dynamicPressure, temperature, density, windSpeed, boot,
                  reading, air >>

(* Lines 76-86.                                                            *)
LoopPitot(Adcs) ==
  /\ pc = "pitot"
  /\ \E adc \in Adcs :
        LET p == PressurePa(adc)
        IN /\ adcValue' = adc
           /\ pressure_Pa' = ZeroOffset(p, pressure0)
           /\ pressure0' = Baseline(p, pressure0)
           /\ ref' = [ref EXCEPT
                        !.dynamicPressure = Max0(ZeroOffset(p, ref.pressure0)),
                        !.pressure0 = Baseline(p, ref.pressure0)]
  /\ dynamicPressure' = Max0(pressure_Pa')
  /\ trace' = Append(trace, Call("analogRead", 0))
  /\ pc' = "dht"
  /\ UNCHANGED << ch, hardware, f, temperature, density, windSpeed, boot,
                  ready, units, reading, air >>

(* Lines 89-93.  The read returns the air temperature t, or NaN when it    *)
(* fails.                                                                  *)
LoopDHT(Temps) ==
  /\ pc = "dht"
  /\ \E t \in Temps, ok \in BOOLEAN :
        /\ air' = t
        /\ reading' = IF ok THEN Fin(t) ELSE NaN
        /\ ref' = [ref EXCEPT !.temperature = Fallback(Fin(t))]
  /\ temperature' = Fallback(reading')
  /\ trace' = trace \o << Call("readTemperature", 0) >> \o NoticeCalls(reading')
  /\ pc' = "derive"
  /\ UNCHANGED << ch, hardware, pressure0, f, adcValue, pressure_Pa,
                  dynamicPressure, density, windSpeed, boot, ready, units >>

(* Lines 95-99.                                                            *)
LoopDerive ==
  /\ pc = "derive"
  /\ density' = Density(dynamicPressure, temperature)
  /\ windSpeed' = WindSpeed(dynamicPressure, density')
  /\ pc' = "print"
  /\ UNCHANGED << ch, hardware, pressure0, f, adcValue, pressure_Pa,
                  dynamicPressure, temperature, trace, boot, ready, units,
                  reading, air, ref >>

(* Lines 102-108: the row.                                                 *)
LoopPrint ==
  /\ pc = "print"
  /\ trace' = trace \o PrintCalls(Row(windSpeed, density, f, temperature))
  /\ ref' = [ref EXCEPT !.row =
               LET d == Density(ref.dynamicPressure, ref.temperature)
               IN Row(WindSpeed(ref.dynamicPressure, d), d, ref.f,
                      ref.temperature)]
  /\ pc' = "delay"
  /\ UNCHANGED << ch, hardware, pressure0, locals, boot >>

(* Lines 110-111: the delay and the return.  The locals of this call are   *)
(* gone; the next call of loop() starts from the baseline alone.           *)
LoopDelay ==
  /\ pc = "delay"
  /\ f' = NoLoads
  /\ adcValue' = 0
  /\ pressure_Pa' = 0
  /\ dynamicPressure' = 0
  /\ temperature' = Fin(0)
  /\ density' = Fin(0)
  /\ windSpeed' = Fin(0)
  /\ ready' = NoneReady
  /\ units' = NoLoads
  /\ reading' = Fin(0)
  /\ air' = 0
  /\ trace' = << >>
  /\ ref' = [ref EXCEPT !.f = NoLoads, !.dynamicPressure = 0,
                        !.temperature = Fin(0), !.row = << >>]
  /\ pc' = "load"
  /\ UNCHANGED << ch, hardware, pressure0, boot >>

-----------------------------------------------------------------------------
Setup == SetupStart \/ ScaleBegin \/ DhtBegin \/ Tare \/ SetupFinish

Next ==
  \/ Setup
  \/ LoopLoadCells(LoadVals)
  \/ LoopPitot(AdcSamples)
  \/ LoopDHT(TempVals)
  \/ LoopDerive
  \/ LoopPrint
  \/ LoopDelay

Spec == Init /\ [][Next]_vars

(* main() of the Arduino core calls setup() once and then loop() forever,  *)
(* and no statement of the sketch blocks for ever: is_ready() polls,       *)
(* get_units() is called on a ready scale only, readTemperature() times    *)
(* out and delay() is finite.  So a step that can be taken is taken.       *)
NextLive ==
  \/ Setup
  \/ LoopLoadCells({617})
  \/ LoopPitot({0, 512, ADC_RES})
  \/ LoopDHT({-9900, 2500})
  \/ LoopDerive
  \/ LoopPrint
  \/ LoopDelay

LiveSpec == Init /\ [][NextLive]_vars /\ WF_vars(NextLive)

(* The first cycle after boot on every ADC count, the later cycles on the  *)
(* two ends of the ADC range, the bridges at rest and one air temperature. *)
AdcAfterBoot == IF pressure0 = 0 THEN AdcRange ELSE {0, ADC_RES}

NextBoot ==
  \/ Setup
  \/ LoopLoadCells({0})
  \/ LoopPitot(AdcAfterBoot)
  \/ LoopDHT({2500})
  \/ LoopDerive
  \/ LoopPrint
  \/ LoopDelay

SpecBoot == Init /\ [][NextBoot]_vars

-----------------------------------------------------------------------------
(* What a reader of the serial line sees.                                  *)

InSetup == pc \in {"setup", "begin", "dht_begin", "tare", "header"}
InLoop == ~InSetup

(* The Serial calls of a sequence of calls.                                *)
SerialCalls(tr) == SelectSeq(tr, LAMBDA e : e.op \in {"print", "println"})

(* The lines written by a sequence of Serial calls: println ends a line.   *)
RECURSIVE Lines(_)
Lines(evs) ==
  IF \A i \in 1..Len(evs) : evs[i].op # "println" THEN << >>
  ELSE LET n == CHOOSE i \in 1..Len(evs) :
                  /\ evs[i].op = "println"
                  /\ \A j \in 1..(i - 1) : evs[j].op # "println"
       IN << [i \in 1..n |-> evs[i].tok] >>
            \o Lines(SubSeq(evs, n + 1, Len(evs)))

IsText(line) ==
  Len(line) = 1 /\ line[1].k \in {"banner_started", "banner_initialized",
                                   "header", "notice"}

(* The CSV data rows among the lines this call of loop() has written.      *)
DataRows == SelectSeq(Lines(SerialCalls(trace)), LAMBDA l : ~IsText(l))
Notices ==
  SelectSeq(Lines(SerialCalls(trace)), LAMBDA l : l = << Text("notice") >>)

(* The comma-separated fields of a line.                                   *)
Fields(line) ==
  [i \in 1..((Len(line) + 1) \div 2) |-> line[2 * i - 1]]
WellFormed(line) ==
  /\ Len(line) % 2 = 1
  /\ \A i \in 1..Len(line) : (line[i] = Sep) <=> (i % 2 = 0)

(* The positions of a call in a sequence of calls.                         *)
Pos(tr, c) == {i \in 1..Len(tr) : tr[i] = c}
Before(tr, a, b) ==
  \A j \in Pos(tr, b) : \E i \in Pos(tr, a) : i < j

-----------------------------------------------------------------------------
(* C1: the baseline pressure0 changes value at most once.  While it is 0   *)
(* only the pitot step writes it, with the pressure computed in that       *)
(* cycle (so it stays 0 if that pressure is 0); once it is not 0 no step   *)
(* changes it.                                                             *)
C1_BaselineWrittenOnce ==
  [][/\ pressure0 # 0 => pressure0' = pressure0
     /\ pressure0 = 0 =>
          pressure0' = IF pc = "pitot" THEN PressurePa(adcValue') ELSE 0]_vars

(* A cycle after the capture, on another reading, has finished.            *)
C1_Witness ==
  /\ pc = "delay"
  /\ pressure0 # 0
  /\ PressurePa(adcValue) # pressure0
  /\ pressure_Pa = PressurePa(adcValue) - pressure0

(* C2: whenever the density of a cycle is zero or negative, the wind speed *)
(* in its record is a finite value that is not negative; no record carries *)
(* a NaN, infinite or negative wind speed.                                 *)
C2_WindSpeedGuarded ==
  (pc = "delay" /\ Len(DataRows) = 1) =>
    LET w == Fields(DataRows[1])[1]
    IN /\ (density.k = "fin" /\ density.v <= 0) => (w.k = "fin" /\ w.v >= 0)
       /\ w.k = "fin" /\ w.v >= 0

(* C3: a cycle whose thermal read is invalid carries exactly -99.0 in the  *)
(* temperature field of its row, writes exactly one notice line before the *)
(* first field of the row, and goes on to emit the row; a cycle whose read *)
(* is valid writes no notice and carries the value read.                   *)
C3_State ==
  /\ pc \in {"derive", "print", "delay"} =>
        IF isnan(reading)
        THEN temperature = Fin(-9900) /\ Len(Notices) = 1
        ELSE temperature = reading /\ Len(Notices) = 0
  /\ pc = "delay" =>
        /\ Len(DataRows) = 1
        /\ Fields(DataRows[1])[7]
             = (IF isnan(reading) THEN Fin(-990) ELSE PrintFloat(reading, 2, 1))
        /\ \A i \in Pos(trace, Println(Text("notice"))) :
             \A j \in 1..i : trace[j].op # "print"

C3_ThermalFallback ==
  /\ []C3_State
  /\ (pc = "derive" /\ isnan(reading)) ~> (pc = "delay" /\ isnan(reading))

(* A row of a cycle whose read failed.                                     *)
C3_Witness ==
  /\ pc = "delay"
  /\ isnan(reading)
  /\ Len(Notices) = 1
  /\ Fields(DataRows[1])[7] = Fin(-990)

(* C4: in every cycle and for each of the four channels, get_units() is    *)
(* called only after is_ready() returned true in that cycle; the load of   *)
(* a channel that is not ready is 0 in the cycle's record and the load of  *)
(* a ready channel is the value read in that cycle.                        *)
C4_NotReadyNotRead ==
  pc \in {"pitot", "dht", "derive", "print", "delay"} =>
    \A i \in Channels :
      /\ Pos(trace, Call("get_units", i)) # {} => ready[i]
      /\ Before(trace, Call("is_ready", i), Call("get_units", i))
      /\ Cardinality(Pos(trace, Call("get_units", i))) <= 1
      /\ ~ready[i] => f[i] = 0
      /\ ready[i] => f[i] = units[i]
      /\ (pc = "delay" /\ Len(DataRows) = 1) =>
            Fields(DataRows[1])[2 + i]
              = PrintFloat(Fin(IF ready[i] THEN units[i] ELSE 0), 3, 2)

(* A row with a channel that is not ready while its bridge holds a load,   *)
(* beside a ready channel that reads one.                                  *)
C4_Witness ==
  /\ pc = "delay"
  /\ \E i, j \in Channels :
        /\ ~ready[i] /\ units[i] # 0
        /\ ready[j] /\ units[j] # 0
        /\ Fields(DataRows[1])[2 + i] = Fin(0)
        /\ Fields(DataRows[1])[2 + j] # Fin(0)

(* C5: the cycle that captures the baseline uses the uncorrected pressure  *)
(* p; every later cycle uses max(p - baseline, 0), which is 0 when the     *)
(* reading is the one the baseline was captured from.                      *)
C5_BaselineSubtracted ==
  [][pc = "pitot" =>
       LET p == PressurePa(adcValue')
       IN IF pressure0 = 0
          THEN /\ pressure0' = p
               /\ dynamicPressure' = (IF p > 0 THEN p ELSE 0)
          ELSE /\ pressure0' = pressure0
               /\ dynamicPressure'
                    = (IF p - pressure0 > 0 THEN p - pressure0 ELSE 0)
               /\ p = pressure0 => dynamicPressure' = 0]_vars

(* A cycle after the capture whose reading is the captured one.            *)
C5_Witness ==
  /\ pc = "delay"
  /\ pressure0 > 0
  /\ PressurePa(adcValue) = pressure0
  /\ pressure_Pa = 0
  /\ dynamicPressure = 0

(* C6: the dynamic pressure of a cycle, from which its density and wind    *)
(* speed are computed, is never negative, whatever the reading and the     *)
(* baseline.                                                               *)
C6_DynamicPressureClamped ==
  /\ dynamicPressure >= 0
  /\ pc \in {"dht", "derive", "print", "delay"} =>
        dynamicPressure >= PressurePa(adcValue) - pressure0
  /\ pc \in {"print", "delay"} =>
        /\ density = Density(dynamicPressure, temperature)
        /\ windSpeed = WindSpeed(dynamicPressure, density)

(* A negative baseline, and a later reading below it.                      *)
C6_Witness ==
  /\ pc = "delay"
  /\ pressure0 < 0
  /\ pressure_Pa < 0
  /\ dynamicPressure = 0

(* C7: the loop never halts.  Every cycle, whichever channels are not      *)
(* ready and whether or not the thermal read fails, emits exactly one data *)
(* row of seven comma-separated fields holding, in the header's order, the *)
(* wind speed, the density, the four loads and the temperature, and is     *)
(* followed by another cycle.                                              *)
ColumnValue(name) ==
  CASE name = "WindSpeed(m/s)" -> PrintFloat(windSpeed, 2, 2)
    [] name = "Density(kg/m^3)" -> PrintFloat(density, 4, 3)
    [] name = "Load1" -> PrintFloat(Fin(f[1]), 3, 2)
    [] name = "Load2" -> PrintFloat(Fin(f[2]), 3, 2)
    [] name = "Load3" -> PrintFloat(Fin(f[3]), 3, 2)
    [] name = "Load4" -> PrintFloat(Fin(f[4]), 3, 2)
    [] name = "Temperature(C)" -> PrintFloat(temperature, 2, 1)

C7_State ==
  /\ (InLoop /\ pc # "delay") => Len(DataRows) = 0
  /\ pc = "delay" =>
        /\ Len(DataRows) = 1
        /\ WellFormed(DataRows[1])
        /\ Len(Fields(DataRows[1])) = 7
        /\ Len(Header) = 7
        /\ \A i \in 1..7 : Fields(DataRows[1])[i] = ColumnValue(Header[i])
        /\ trace[Len(trace)].op = "println"

C7_LoopNeverHalts ==
  /\ []C7_State
  /\ (pc = "load") ~> (pc = "delay")
  /\ (pc = "delay") ~> (pc = "load")

(* A row of a cycle in which no channel was ready and the read failed.     *)
C7_Witness ==
  /\ pc = "delay"
  /\ \A i \in Channels : ~ready[i]
  /\ isnan(reading)
  /\ Len(Fields(DataRows[1])) = 7

(* C8: setup() runs once, in this order: each scale is bound before it is  *)
(* tared; the four tares and dht.begin() come before the header line; the  *)
(* banner lines come before the header line; the header line is written    *)
(* once; no data row and no get_units() comes before the header line and   *)
(* the four tares.                                                         *)
SetupCalls == IF InSetup THEN trace ELSE boot

C8_State ==
  LET header == Println(Text("header"))
  IN /\ \A i \in Channels :
          /\ Before(SetupCalls, Call("begin", i), Call("tare", i))
          /\ Before(SetupCalls, Call("tare", i), header)
          /\ scale[i].tared => scale[i].bound
          /\ Cardinality(Pos(SetupCalls, Call("begin", i))) <= 1
          /\ Cardinality(Pos(SetupCalls, Call("tare", i))) <= 1
     /\ Before(SetupCalls, Call("dht.begin", 0), header)
     /\ Before(SetupCalls, Println(Text("banner_started")), header)
     /\ Before(SetupCalls, Println(Text("banner_initialized")), header)
     /\ Cardinality(Pos(SetupCalls, header)) = (IF InLoop THEN 1 ELSE 0)
     /\ InSetup =>
          \A i \in 1..Len(trace) : trace[i].op \notin {"get_units", "print"}
     /\ InLoop =>
          /\ \A i \in Channels : scale[i].bound /\ scale[i].tared
          /\ dhtStarted
          /\ \A i \in 1..Len(trace) :
               /\ trace[i].op \notin
                    {"Serial.begin", "begin", "dht.begin", "tare"}
               /\ trace[i].tok.k \notin
                    {"banner_started", "banner_initialized", "header"}

C8_SetupOnceInOrder ==
  /\ []C8_State
  /\ [][InLoop => (InLoop' /\ boot' = boot)]_vars

(* The first get_units() after setup() has returned.                       *)
C8_Witness ==
  /\ pc = "pitot"
  /\ pressure0 = 0
  /\ Pos(trace, Call("get_units", 1)) # {}
  /\ Len(boot) = 15

(* C9, as claimed: a channel that is not ready, or an invalid thermal      *)
(* read, changes only that channel's own field of the cycle's record;      *)
(* every other field of it, and the baseline the later records depend on,  *)
(* are those of the run without the failure.                               *)
OwnFieldFailed(j) ==
  \/ j \in 3..6 /\ ~ready[j - 2]
  \/ j = 7 /\ isnan(reading)

C9_OnlyOwnField ==
  /\ pressure0 = ref.pressure0
  /\ (pc = "delay" /\ Len(DataRows) = 1) =>
        \A j \in 1..7 :
          OwnFieldFailed(j) \/ Fields(DataRows[1])[j] = ref.row[j]

(* C9, amended: an invalid thermal read also changes the density and the   *)
(* wind speed of the cycle's record, which are computed from the fallback  *)
(* temperature; apart from that a failure changes only its own field, and  *)
(* no field of a later record.                                             *)
C9_OwnAndDerivedFields ==
  /\ pressure0 = ref.pressure0
  /\ (pc = "delay" /\ Len(DataRows) = 1) =>
        \A j \in 1..7 :
          \/ OwnFieldFailed(j)
          \/ j \in {1, 2} /\ isnan(reading)
          \/ Fields(DataRows[1])[j] = ref.row[j]

(* A row after a failed read and a channel not ready, in a cycle after the *)
(* capture: the density differs from the run without the failure, the load *)
(* of a ready channel does not.                                            *)
C9_Witness ==
  /\ pc = "delay"
  /\ isnan(reading)
  /\ PressurePa(adcValue) # pressure0
  /\ \E i, j \in Channels :
        /\ ~ready[i] /\ units[i] # 0
        /\ ready[j] /\ units[j] # 0
        /\ Fields(DataRows[1])[2 + j] = ref.row[2 + j]
  /\ Fields(DataRows[1])[2] # ref.row[2]

(* C10: no ADC count in 0..1023 gives a pressure of exactly zero, so the   *)
(* first pitot step after boot sets the baseline, and the baseline stays   *)
(* set: the branch that leaves it 0 is never taken.                        *)
C10_BaselineSetInFirstCycle ==
  [][/\ pc = "pitot" => (PressurePa(adcValue') # 0 /\ pressure0' # 0)
     /\ pressure0 # 0 => pressure0' # 0]_vars

(* The first cycle, on the count nearest to the zero-pressure voltage.     *)
C10_Witness ==
  /\ pc = "delay"
  /\ adcValue = 102
  /\ pressure0 = PressurePa(102)
  /\ pressure_Pa = pressure0

=============================================================================
